---- MODULE Spec2Model ----
(***************************************************************************)
(* A model of rekall's Windows cache-manager plugins                       *)
(* (rekall-core/rekall/plugins/windows/cache.py):                          *)
(*   EnumerateVacbs  - GetVACBs, GetVACBs_WinXP, GetVACBs_Win7             *)
(*   DumpFiles       - CollectFileObject, _dump_ca, render                 *)
(*   MftDump         - extract_mft_entries_from_vacb, render_tree, render  *)
(* The memory image is read-only: it is chosen in the initial state (or    *)
(* read piecewise as a walk advances) and never changes afterwards.        *)
(***************************************************************************)
EXTENDS Integers, Sequences, FiniteSets, TLC

\* Python's None / rekall's obj.NoneObject where an address is expected.
None == -1

\* State of EnumerateVacbs.
VARIABLES
    CcVacbs,                 \* profile constant CcVacbs: 0 when the symbol is absent
    CcNumberVacbs,           \* legacy layout: number of entries of the CcVacbs array
    CcVacbArraysAllocated,   \* newer layout: number of table pointers
    CcVacbArrays,            \* newer layout: the array of _VACB_ARRAY_HEADER pointers
    ArrayHead,               \* newer layout: table -> the ArrayHead of each of its slots
    gv_pc,                   \* position of the GetVACBs generator
    consulted,               \* kernel globals read so far by this GetVACBs call
    yielded,                 \* the VACBs yielded so far, in order
    table_i,                 \* index into CcVacbArrays of the table being scanned
    slot_i                   \* index of the next slot of that table

vacb_vars == <<CcVacbs, CcNumberVacbs, CcVacbArraysAllocated, CcVacbArrays,
               ArrayHead, gv_pc, consulted, yielded, table_i, slot_i>>

\* State of DumpFiles._dump_ca: the backing-store walker.
VARIABLES
    has_proto,      \* whether the kernel address space has ResolveProtoPTE
    ca_pc,          \* position of the walk
    subsection,     \* the subsection being walked
    walked,         \* number of subsections taken from the NextSubsection list
    pte_i,          \* enumerate()'s index i into subsection.SubsectionBase
    ca_rows         \* the table rows emitted for the subsection being walked

ca_vars == <<has_proto, ca_pc, subsection, walked, pte_i, ca_rows>>

\* State of DumpFiles.
VARIABLES
    tasks,               \* the image: per task, its VAD file pointers and handles
    FileName,            \* the image: file object -> device-qualified name
    ImageSectionObject,  \* the image: file object -> control area (0: null)
    DataSectionObject,   \* the image: file object -> control area (0: null)
    SharedCacheMap,      \* the image: file object -> shared cache map (0: null)
    vacb_fields,         \* the image: the fields of each VACB GetVACBs yields
    page_table,          \* the image: kernel virtual page -> physical address
    explicit,            \* the file_objects argument the command was given
    file_objects,        \* self.file_objects
    vacb_by_cache_map,   \* self.vacb_by_cache_map
    df_pc,               \* position of DumpFiles.render
    seen_filenames,      \* render's seen_filenames
    pending,             \* members of file_objects the loop has not reached yet
    processed,           \* history: the file objects in the order the loop took them
    opened,              \* history: (filename, file object) per stream opened this run
    df_rows,             \* the table rows emitted this run
    disk,                \* dump_dir: filename -> content of the output stream
    run,                 \* 1 or 2: which run of the command this is
    first_run            \* history: what the first run opened and wrote

dump_vars == <<tasks, FileName, ImageSectionObject, DataSectionObject,
               SharedCacheMap, vacb_fields, page_table, explicit, file_objects,
               vacb_by_cache_map, df_pc, seen_filenames, pending, processed,
               opened, df_rows, disk, run, first_run>>

\* State of MftDump.
VARIABLES
    mfts,         \* self.mfts: mft id -> the accepted MFT entry
    dir_tree,     \* self.dir_tree: mft id -> the container of its children
    mft_pc,       \* position of MftDump.render
    scanned,      \* number of 1 KB records decoded so far
    accepted,     \* history: the records read whose magic was "FILE"
    keys_left,    \* keys of dir_tree that render's loop has not reached yet
    seen,         \* render's "seen" set
    stack,        \* the active render_tree calls, innermost last
    tree_rows     \* the table rows emitted, in order

mft_vars == <<mfts, dir_tree, mft_pc, scanned, accepted, keys_left, seen,
              stack, tree_rows>>

vars == <<vacb_vars, ca_vars, dump_vars, mft_vars>>

RECURSIVE SumSeq(_)
SumSeq(s) == IF s = <<>> THEN 0 ELSE Head(s) + SumSeq(Tail(s))

(***************************************************************************)
(* EnumerateVacbs                                                          *)
(***************************************************************************)
\* Bounds of the cache-manager snapshot.
MaxLegacy == 1
MaxTables == 2
SlotsPerTable == 2

NullPtr == 0
LegacyAddr == 7
\* Addresses of the _VACB_ARRAY_HEADER tables of the snapshot.
Tables == {1, 2}
TablePtrs == Tables \cup {NullPtr}

\* A VACB of the legacy flat array, and a VACB slot of a table.
LegacyVacb(k) == [layout |-> "CcVacbs", table |-> NullPtr, index |-> k]
TableVacb(t, k) == [layout |-> "CcVacbArrays", table |-> t, index |-> k]

\* table.VACBs: dereferencing a null table pointer gives nothing to iterate.
SlotCount(t) == IF t = NullPtr THEN 0 ELSE SlotsPerTable

VacbSnapshot ==
    /\ CcVacbs \in {NullPtr, LegacyAddr}
    /\ CcNumberVacbs \in 0..MaxLegacy
    /\ CcVacbArraysAllocated \in 0..MaxTables
    /\ CcVacbArrays \in [1..CcVacbArraysAllocated -> TablePtrs]
    /\ ArrayHead \in [Tables -> [1..SlotsPerTable -> TablePtrs]]

VacbIdle ==
    /\ CcVacbs = NullPtr
    /\ CcNumberVacbs = 0
    /\ CcVacbArraysAllocated = 0
    /\ CcVacbArrays = <<>>
    /\ ArrayHead = [t \in Tables |-> [k \in 1..SlotsPerTable |-> NullPtr]]

GvStart ==
    /\ gv_pc = "GetVACBs"
    /\ consulted = {}
    /\ yielded = <<>>
    /\ table_i = 1
    /\ slot_i = 1

\* if self.session.profile.get_constant("CcVacbs"):
UseLegacyAlways == TRUE
UseLegacy == CcVacbs # NullPtr

GetVACBs ==
    /\ gv_pc = "GetVACBs"
    /\ consulted' = consulted \cup {"CcVacbs"}
    /\ gv_pc' = IF UseLegacy THEN "GetVACBs_WinXP" ELSE "GetVACBs_Win7"
    /\ UNCHANGED <<CcVacbs, CcNumberVacbs, CcVacbArraysAllocated, CcVacbArrays,
                   ArrayHead, yielded, table_i, slot_i>>
    /\ UNCHANGED <<ca_vars, dump_vars, mft_vars>>

\* The two get_constant_object calls that open the legacy generator.
GetVACBs_WinXP ==
    /\ gv_pc = "GetVACBs_WinXP"
    /\ consulted' = consulted \cup {"CcNumberVacbs", "CcVacbs[]"}
    /\ slot_i' = 1
    /\ gv_pc' = "xp_loop"
    /\ UNCHANGED <<CcVacbs, CcNumberVacbs, CcVacbArraysAllocated, CcVacbArrays,
                   ArrayHead, yielded, table_i>>
    /\ UNCHANGED <<ca_vars, dump_vars, mft_vars>>

\* for vacb in vacb_array: yield vacb
WinXP_Yield ==
    /\ gv_pc = "xp_loop"
    /\ IF slot_i <= CcNumberVacbs
         THEN /\ yielded' = Append(yielded, LegacyVacb(slot_i))
              /\ slot_i' = slot_i + 1
              /\ gv_pc' = gv_pc
         ELSE /\ gv_pc' = "done"
              /\ UNCHANGED <<yielded, slot_i>>
    /\ UNCHANGED <<CcVacbs, CcNumberVacbs, CcVacbArraysAllocated, CcVacbArrays,
                   ArrayHead, consulted, table_i>>
    /\ UNCHANGED <<ca_vars, dump_vars, mft_vars>>

\* The two get_constant_object calls that open the newer generator.
GetVACBs_Win7 ==
    /\ gv_pc = "GetVACBs_Win7"
    /\ consulted' = consulted \cup {"CcVacbArraysAllocated", "CcVacbArrays"}
    /\ table_i' = 1
    /\ slot_i' = 1
    /\ gv_pc' = "win7_loop"
    /\ UNCHANGED <<CcVacbs, CcNumberVacbs, CcVacbArraysAllocated, CcVacbArrays,
                   ArrayHead, yielded>>
    /\ UNCHANGED <<ca_vars, dump_vars, mft_vars>>

\* if vacb.ArrayHead != table: continue
StaleKept(t, k) == FALSE
Stale(t, k) == ArrayHead[t][k] # t

\* One step of "for table in vacb_arrays: for vacb in table.VACBs".
Win7_Slot ==
    /\ gv_pc = "win7_loop"
    /\ IF table_i > CcVacbArraysAllocated
         THEN /\ gv_pc' = "done"
              /\ UNCHANGED <<yielded, table_i, slot_i>>
         ELSE LET table == CcVacbArrays[table_i] IN
              IF slot_i > SlotCount(table)
                THEN /\ table_i' = table_i + 1
                     /\ slot_i' = 1
                     /\ UNCHANGED <<yielded, gv_pc>>
                ELSE /\ yielded' = IF Stale(table, slot_i)
                                     THEN yielded
                                     ELSE Append(yielded, TableVacb(table, slot_i))
                     /\ slot_i' = slot_i + 1
                     /\ UNCHANGED <<gv_pc, table_i>>
    /\ UNCHANGED <<CcVacbs, CcNumberVacbs, CcVacbArraysAllocated, CcVacbArrays,
                   ArrayHead, consulted>>
    /\ UNCHANGED <<ca_vars, dump_vars, mft_vars>>

VacbNext ==
    \/ GetVACBs
    \/ GetVACBs_WinXP
    \/ WinXP_Yield
    \/ GetVACBs_Win7
    \/ Win7_Slot

\* The slots k, k+1, ... of table t whose back-reference is t, in slot order.
RECURSIVE OwnedSlots(_, _)
OwnedSlots(t, k) ==
    IF k > SlotCount(t) THEN <<>>
    ELSE (IF ArrayHead[t][k] = t THEN <<TableVacb(t, k)>> ELSE <<>>)
         \o OwnedSlots(t, k + 1)

\* The owned slots of the first n tables of CcVacbArrays, in table order.
RECURSIVE OwnedOfTables(_)
OwnedOfTables(n) ==
    IF n = 0 THEN <<>>
    ELSE OwnedOfTables(n - 1) \o OwnedSlots(CcVacbArrays[n], 1)

\* C3: with the newer layout, no slot whose ArrayHead differs from the table it
\* was iterated from is ever yielded, and the finished sequence is exactly the
\* slots owned by their table, in table order then slot order.
C3_StaleSlotsFiltered ==
    CcVacbs = NullPtr =>
        /\ \A k \in 1..Len(yielded) :
              /\ yielded[k].layout = "CcVacbArrays"
              /\ ArrayHead[yielded[k].table][yielded[k].index] = yielded[k].table
        /\ gv_pc = "done" => yielded = OwnedOfTables(CcVacbArraysAllocated)

\* A finished newer-layout enumeration that yielded slots of two tables and
\* skipped a stale slot of a table it scanned.
C3_Witness ==
    /\ gv_pc = "done"
    /\ CcVacbs = NullPtr
    /\ \E j, k \in 1..Len(yielded) : yielded[j].table # yielded[k].table
    /\ \E n \in 1..CcVacbArraysAllocated :
          /\ CcVacbArrays[n] # NullPtr
          /\ \E k \in 1..SlotsPerTable : ArrayHead[CcVacbArrays[n]][k] # CcVacbArrays[n]

\* C8: one GetVACBs call uses one layout only. Where CcVacbs resolves
\* non-null, CcVacbArrays and CcVacbArraysAllocated are never read and every
\* VACB comes from the legacy array; where it does not, CcNumberVacbs and the
\* CcVacbs array are never read and every VACB comes from a table.
C8_ExclusiveDispatch ==
    /\ CcVacbs # NullPtr =>
          /\ consulted \cap {"CcVacbArrays", "CcVacbArraysAllocated"} = {}
          /\ \A k \in 1..Len(yielded) : yielded[k].layout = "CcVacbs"
    /\ CcVacbs = NullPtr =>
          /\ consulted \cap {"CcNumberVacbs", "CcVacbs[]"} = {}
          /\ \A k \in 1..Len(yielded) : yielded[k].layout = "CcVacbArrays"

\* A finished legacy enumeration that yielded a VACB on a snapshot that also
\* holds a table with a slot it owns.
C8_Witness ==
    /\ gv_pc = "done"
    /\ CcVacbs # NullPtr
    /\ Len(yielded) > 0
    /\ Len(OwnedOfTables(CcVacbArraysAllocated)) > 0

(***************************************************************************)
(* DumpFiles._dump_ca: the backing-store walker                            *)
(***************************************************************************)
\* Bounds of a control area: subsections on the list, PTEs of a subsection.
MaxSubsections == 2
MaxPtes == 2

SectorSize == 512
PageSize == 4096
\* sectors_per_page = 0x1000 / 512 (Python 2 integer division)
sectors_per_page == PageSize \div SectorSize

\* physical_address_space.end() of the image.
PhysEnd == 16384

\* A PTE of the image: u.Long, and what ResolveProtoPTE makes of it where the
\* address space has that method.
Pte(long, resolved) == [Long |-> long, Resolved |-> resolved]
PteValues ==
    { Pte(0, None),           \* not valid, nothing behind it
      Pte(1, 0),              \* valid, physical page 0
      Pte(4097, 4096),        \* valid, physical page 0x1000
      Pte(9216, 8192),        \* prototype form (valid bit clear), resolves to 0x2000
      Pte(20481, 20480) }     \* valid, but beyond the end of the physical image

StartingSectors == {0, 5}
SectorCounts == {0, 3, 8, 11, 16, 40}

PteArrays == UNION {[1..n -> PteValues] : n \in 0..MaxPtes}

Subsections ==
    [StartingSector : StartingSectors,
     NumberOfFullSectors : SectorCounts,
     SubsectionBase : PteArrays]

Min(a, b) == IF a < b THEN a ELSE b

\* pte_value & 0xffffffffff000, for the values of the model (below 2^52).
PageFrame(long) == (long \div PageSize) * PageSize

\* phys_address of a PTE: ResolveProtoPTE, or on AttributeError the valid bit
\* alone ("pte & 1", the PTE object standing for its u.Long).
ResolvePte(pte, proto) ==
    IF proto THEN pte.Resolved
    ELSE IF pte.Long % 2 = 1 THEN PageFrame(pte.Long) ELSE None

\* file_sectors_mapped_in_page = min(sectors_per_page,
\*     subsection.NumberOfFullSectors - i * sectors_per_page)
SectorsMappedUnclamped(sub, i) == sectors_per_page
SectorsMapped(sub, i) ==
    Min(sectors_per_page, sub.NumberOfFullSectors - i * sectors_per_page)

\* The body of the loop over enumerate(subsection.SubsectionBase): the row of
\* page i (0-based), or no row where the code says continue.
PageRow(sub, i, proto) ==
    LET phys_address == ResolvePte(sub.SubsectionBase[i + 1], proto)
        file_sector_offset == sub.StartingSector + i * sectors_per_page
        file_sectors_mapped_in_page == SectorsMapped(sub, i)
    IN  IF phys_address = None THEN <<>>
        ELSE IF file_sectors_mapped_in_page < 0 THEN <<>>
        ELSE IF phys_address > PhysEnd THEN <<>>
        ELSE << [page |-> i,
                 phys |-> phys_address,
                 off |-> file_sector_offset * SectorSize,
                 len |-> file_sectors_mapped_in_page * SectorSize] >>

\* Before the first subsection is read.
NoSubsection ==
    [StartingSector |-> 0, NumberOfFullSectors |-> 0, SubsectionBase |-> <<>>]

CaIdleWalk ==
    /\ ca_pc = "idle"
    /\ subsection = NoSubsection
    /\ walked = 0
    /\ pte_i = 0
    /\ ca_rows = <<>>

CaIdle == has_proto = TRUE /\ CaIdleWalk

CaStart ==
    /\ has_proto \in BOOLEAN
    /\ ca_pc = "walk_list"
    /\ subsection = NoSubsection
    /\ walked = 0
    /\ pte_i = 0
    /\ ca_rows = <<>>

\* for subsection in ca.FirstSubsection.walk_list("NextSubsection"): the next
\* subsection is read from the image, or the list ends.
NextSubsection ==
    /\ ca_pc = "walk_list"
    /\ \/ /\ walked < MaxSubsections
          /\ \E sub \in Subsections : subsection' = sub
          /\ walked' = walked + 1
          /\ pte_i' = 0
          /\ ca_rows' = <<>>
          /\ ca_pc' = "ptes"
       \/ /\ ca_pc' = "done"
          /\ UNCHANGED <<subsection, walked, pte_i, ca_rows>>
    /\ UNCHANGED has_proto
    /\ UNCHANGED <<vacb_vars, dump_vars, mft_vars>>

\* One iteration of the loop over the subsection's PTEs.
DumpCaPage ==
    /\ ca_pc = "ptes"
    /\ IF pte_i < Len(subsection.SubsectionBase)
         THEN /\ ca_rows' = ca_rows \o PageRow(subsection, pte_i, has_proto)
              /\ pte_i' = pte_i + 1
              /\ UNCHANGED ca_pc
         ELSE /\ ca_pc' = "walk_list"
              /\ UNCHANGED <<pte_i, ca_rows>>
    /\ UNCHANGED <<has_proto, subsection, walked>>
    /\ UNCHANGED <<vacb_vars, dump_vars, mft_vars>>

CaNext ==
    \/ NextSubsection
    \/ DumpCaPage

\* C4: the ranges emitted for a subsection add up to at most
\* NumberOfFullSectors * 512 bytes, none starts before StartingSector * 512,
\* and a page whose remaining sector count is negative emits no range.
C4_RangesWithinSubsection ==
    /\ SumSeq([k \in 1..Len(ca_rows) |-> ca_rows[k].len])
          <= subsection.NumberOfFullSectors * SectorSize
    /\ \A k \in 1..Len(ca_rows) :
          /\ ca_rows[k].off >= subsection.StartingSector * SectorSize
          /\ ca_rows[k].len >= 0
          /\ subsection.NumberOfFullSectors
                - ca_rows[k].page * sectors_per_page >= 0

\* A walked subsection that declares fewer sectors than its PTE array covers:
\* two resolvable PTEs, 3 sectors, so page 0 emits a short range and page 1
\* (remaining count -5) emits nothing.
C4_Witness ==
    /\ ca_pc = "walk_list"
    /\ walked >= 1
    /\ subsection.NumberOfFullSectors = 3
    /\ Len(subsection.SubsectionBase) = 2
    /\ \A k \in 1..2 :
          LET p == ResolvePte(subsection.SubsectionBase[k], has_proto)
          IN  p # None /\ p <= PhysEnd
    /\ Len(ca_rows) = 1
    /\ ca_rows[1].len = 3 * SectorSize

(***************************************************************************)
(* DumpFiles                                                               *)
(***************************************************************************)
\* Bounds of the image: file objects, tasks, VACBs.
MaxFiles == 2
MaxTasks == 1
MaxVacbs == 2

FileObjs == 1..MaxFiles
\* An object that is no file (a registry key).
KeyObject == 99

\* Each VACB controls a 256k buffer.
VacbSize == 262144

\* Names are sequences of characters.
RawNames == { <<"a", "\\", "b">>, <<"a", "_", "b">>, <<"c">> }

\* unicode(file_object.file_name_with_device()).replace("\\", "_")
NormalizeFilename(name) ==
    [k \in 1..Len(name) |-> IF name[k] = "\\" THEN "_" ELSE name[k]]

\* The subsection list of a control area of the image: a subsection whose two
\* PTEs cover more than its 11 sectors, then one of 3 sectors.
ControlArea(ca) ==
    << [StartingSector |-> 0, NumberOfFullSectors |-> 11,
        SubsectionBase |-> << Pte(ca * PageSize + 1, ca * PageSize),
                              Pte(9216, 8192) >>],
       [StartingSector |-> 16, NumberOfFullSectors |-> 3,
        SubsectionBase |-> << Pte(1, 0) >>] >>

VacbBase(k) == k * VacbSize
\* The physical page behind a mapped page of the cache.
CachePhys(va) == 2 * VacbSize + va

RECURSIVE SubsectionRows(_, _)
SubsectionRows(sub, i) ==
    IF i >= Len(sub.SubsectionBase) THEN <<>>
    ELSE PageRow(sub, i, has_proto) \o SubsectionRows(sub, i + 1)

\* _dump_ca(ca, out_fd, type, filename, renderer): the rows of the whole walk.
RECURSIVE ChainRows(_)
ChainRows(chain) ==
    IF chain = <<>> THEN <<>>
    ELSE SubsectionRows(Head(chain), 0) \o ChainRows(Tail(chain))

DumpRow(type, phys, off, len) ==
    [type |-> type, phys |-> phys, off |-> off, len |-> len]

_dump_ca(ca, type) ==
    LET rows == ChainRows(ControlArea(ca))
    IN  [k \in 1..Len(rows) |->
            DumpRow(type, rows[k].phys, rows[k].off, rows[k].len)]

\* self.kernel_address_space.vtop(va)
vtop(va) == IF va \in DOMAIN page_table THEN page_table[va] ELSE None

\* "if phys_address:" - None and 0 are both false.
Truthy(phys_address) == phys_address # None /\ phys_address # 0

\* for offset in utils.xrange(0, 0x40000, 0x1000): the rows of one VACB from
\* offset on.
RECURSIVE VacbRows(_, _)
VacbRows(vacb, offset) ==
    IF offset >= VacbSize THEN <<>>
    ELSE LET phys_address == vtop(vacb.BaseAddress + offset)
         IN  (IF Truthy(phys_address)
                THEN << DumpRow("VACB", phys_address,
                                vacb.FileOffset + offset, PageSize) >>
                ELSE <<>>)
             \o VacbRows(vacb, offset + PageSize)

\* for vacb in self.vacb_by_cache_map.get(scm, []): ...
RECURSIVE VacbListRows(_)
VacbListRows(list) ==
    IF list = <<>> THEN <<>>
    ELSE VacbRows(vacb_fields[Head(list)], 0) \o VacbListRows(Tail(list))

CacheRows(scm) ==
    IF scm \in DOMAIN vacb_by_cache_map
      THEN VacbListRows(vacb_by_cache_map[scm]) ELSE <<>>

ImageRows(fo) ==
    IF ImageSectionObject[fo] # NullPtr
      THEN _dump_ca(ImageSectionObject[fo], "ImageSectionObject") ELSE <<>>

DataRows(fo) ==
    IF DataSectionObject[fo] # NullPtr
      THEN _dump_ca(DataSectionObject[fo], "DataSectionObject") ELSE <<>>

\* The body of "with renderer.open(...) as out_fd": the rows in the order the
\* code emits them and writes their ranges.
FileRows(fo) ==
    ImageRows(fo) \o DataRows(fo) \o CacheRows(SharedCacheMap[fo])

\* out_fd.seek(off); out_fd.write(physical_address_space.read(phys, len)).
\* A stream maps each 512-byte sector written to the physical sector whose
\* bytes it holds; sectors never written are holes.
Sectors(off, len) == {off \div SectorSize + j : j \in 0..(len \div SectorSize) - 1}

Write(content, row) ==
    LET new == Sectors(row.off, row.len)
    IN  [sec \in DOMAIN content \cup new |->
            IF sec \in new
              THEN row.phys \div SectorSize + (sec - row.off \div SectorSize)
              ELSE content[sec]]

RECURSIVE WriteAll(_, _)
WriteAll(content, rows) ==
    IF rows = <<>> THEN content
    ELSE WriteAll(Write(content, Head(rows)), Tail(rows))

\* The VACBs GetVACBs yields on the legacy-layout snapshots the dump runs on:
\* every entry of the CcVacbs array, in order.
GetVACBs_result == [k \in 1..CcNumberVacbs |-> k]

\* The list of the VACBs of one shared cache map, in the order yielded.
RECURSIVE VacbsOf(_, _)
VacbsOf(scm, list) ==
    IF list = <<>> THEN <<>>
    ELSE (IF vacb_fields[Head(list)].SharedCacheMap = scm
            THEN <<Head(list)>> ELSE <<>>)
         \o VacbsOf(scm, Tail(list))

\* seen_filenames = set()
NewSeenFilenames == {}

\* CollectFileObject, and render's seen_filenames = set() after it.
CollectFileObject ==
    /\ df_pc = "render"
    /\ file_objects' =
          UNION { { tasks[t].vads[k] : k \in DOMAIN tasks[t].vads } \ {NullPtr}
                  : t \in DOMAIN tasks }
          \cup
          UNION { { tasks[t].handles[k].Object :
                      k \in { j \in DOMAIN tasks[t].handles :
                                 tasks[t].handles[j].type = "File" } }
                  : t \in DOMAIN tasks }
    /\ vacb_by_cache_map' =
          LET all == GetVACBs_result
              maps == { vacb_fields[all[k]].SharedCacheMap : k \in DOMAIN all }
                        \ {NullPtr}
          IN  [scm \in maps |-> VacbsOf(scm, all)]
    /\ seen_filenames' = NewSeenFilenames
    /\ pending' = file_objects'
    /\ df_pc' = "files"
    /\ UNCHANGED <<tasks, FileName, ImageSectionObject, DataSectionObject,
                   SharedCacheMap, vacb_fields, page_table, explicit,
                   processed, opened, df_rows, disk, run, first_run>>
    /\ UNCHANGED <<vacb_vars, ca_vars, mft_vars>>

\* if filename in seen_filenames: continue
NeverDumped(filename) == FALSE
AlreadyDumped(filename) == filename \in seen_filenames

\* One iteration of "for file_object in self.file_objects": the set hands out
\* its members in an order the program does not control.
RenderFile ==
    /\ df_pc = "files"
    /\ \E file_object \in pending :
          LET filename == NormalizeFilename(FileName[file_object])
              rows == FileRows(file_object)
          IN  /\ pending' = pending \ {file_object}
              /\ processed' = Append(processed, file_object)
              /\ IF AlreadyDumped(filename)
                   THEN UNCHANGED <<seen_filenames, opened, df_rows, disk>>
                   ELSE /\ seen_filenames' = seen_filenames \cup {filename}
                        /\ opened' = Append(opened, [filename |-> filename,
                                                     fo |-> file_object])
                        /\ df_rows' = df_rows \o
                              [k \in 1..Len(rows) |->
                                  [row |-> rows[k], filename |-> filename,
                                   fo |-> file_object]]
                        /\ disk' = (filename :> WriteAll(<<>>, rows)) @@ disk
    /\ UNCHANGED <<tasks, FileName, ImageSectionObject, DataSectionObject,
                   SharedCacheMap, vacb_fields, page_table, explicit,
                   file_objects, vacb_by_cache_map, df_pc, run, first_run>>
    /\ UNCHANGED <<vacb_vars, ca_vars, mft_vars>>

\* The loop over self.file_objects ends and render returns.
RenderReturn ==
    /\ df_pc = "files"
    /\ pending = {}
    /\ df_pc' = "done"
    /\ first_run' = IF run = 1 THEN [opened |-> opened, disk |-> disk]
                               ELSE first_run
    /\ UNCHANGED <<tasks, FileName, ImageSectionObject, DataSectionObject,
                   SharedCacheMap, vacb_fields, page_table, explicit,
                   file_objects, vacb_by_cache_map, seen_filenames, pending,
                   processed, opened, df_rows, disk, run>>
    /\ UNCHANGED <<vacb_vars, ca_vars, mft_vars>>

\* The command is run again on the same image with the same arguments and
\* the same dump_dir.
SecondRun ==
    /\ df_pc = "done"
    /\ run = 1
    /\ run' = 2
    /\ df_pc' = "render"
    /\ file_objects' = explicit
    /\ vacb_by_cache_map' = <<>>
    /\ processed' = <<>>
    /\ opened' = <<>>
    /\ df_rows' = <<>>
    /\ UNCHANGED <<tasks, FileName, ImageSectionObject, DataSectionObject,
                   SharedCacheMap, vacb_fields, page_table, explicit,
                   seen_filenames, pending, disk, first_run>>
    /\ UNCHANGED <<vacb_vars, ca_vars, mft_vars>>

DumpProgram ==
    /\ file_objects = explicit
    /\ vacb_by_cache_map = <<>>
    /\ seen_filenames = {}
    /\ pending = {}
    /\ processed = <<>>
    /\ opened = <<>>
    /\ df_rows = <<>>
    /\ disk = <<>>
    /\ run = 1
    /\ first_run = [opened |-> <<>>, disk |-> <<>>]

\* A legacy-layout snapshot whose CcVacbs array has n entries.
LegacySnapshot(n) ==
    /\ CcVacbs = LegacyAddr
    /\ CcNumberVacbs = n
    /\ CcVacbArraysAllocated = 0
    /\ CcVacbArrays = <<>>
    /\ ArrayHead = [t \in Tables |-> [k \in 1..SlotsPerTable |-> NullPtr]]

Handles ==
    [type : {"File"}, Object : FileObjs]
    \cup {[type |-> "Key", Object |-> KeyObject]}

\* A task with one VAD, mapping the first file object or no file, and one
\* handle.
TaskShapes ==
    [vads : {<<fp>> : fp \in {NullPtr, 1}},
     handles : {<<h>> : h \in Handles}]

\* Images that differ in what the tasks reference, in the names of the file
\* objects and in the file_objects argument; every file object has its own
\* data section, and the first one a cached page over it.
NamesImage ==
    /\ tasks \in [1..MaxTasks -> TaskShapes]
    /\ FileName \in [FileObjs -> RawNames]
    /\ ImageSectionObject = [f \in FileObjs |-> NullPtr]
    /\ DataSectionObject = [f \in FileObjs |-> f]
    /\ SharedCacheMap = [f \in FileObjs |-> 10 + f]
    /\ vacb_fields = << [SharedCacheMap |-> 11, BaseAddress |-> VacbBase(1),
                         FileOffset |-> 0] >>
    /\ page_table = (VacbBase(1) :> CachePhys(VacbBase(1)))
    /\ explicit \in {{}, {MaxFiles}}
    /\ has_proto = TRUE
    /\ LegacySnapshot(1)

\* The virtual pages of the cache that an image may map.
VacbPages == {VacbBase(k) : k \in 1..MaxVacbs} \cup {VacbBase(1) + PageSize}

\* Images that differ in the sections, the cache map, the VACBs and the page
\* table of one file object, which the one task maps.
DataImage ==
    /\ tasks = << [vads |-> <<1>>,
                   handles |-> <<[type |-> "Key", Object |-> KeyObject]>>] >>
    /\ FileName = [f \in FileObjs |-> IF f = 1 THEN <<"a", "\\", "b">> ELSE <<"c">>]
    /\ \E ca \in {NullPtr, 1} :
          ImageSectionObject = [f \in FileObjs |-> IF f = 1 THEN ca ELSE NullPtr]
    /\ \E ca \in {NullPtr, 2} :
          DataSectionObject = [f \in FileObjs |-> IF f = 1 THEN ca ELSE NullPtr]
    /\ \E scm \in {NullPtr, 11} :
          SharedCacheMap = [f \in FileObjs |-> IF f = 1 THEN scm ELSE NullPtr]
    /\ \E n \in 0..MaxVacbs :
          /\ vacb_fields \in
                { v \in [1..n -> [SharedCacheMap : {NullPtr, 11},
                                  BaseAddress : {VacbBase(k) : k \in 1..n},
                                  FileOffset : {0, PageSize}]] :
                    \A k \in 1..n : v[k].BaseAddress = VacbBase(k) }
          /\ LegacySnapshot(n)
    /\ page_table \in
          { pt \in [VacbPages -> {None, 0} \cup {CachePhys(va) : va \in VacbPages}] :
              \A va \in VacbPages : pt[va] \in {None, 0, CachePhys(va)} }
    /\ explicit = {}
    /\ has_proto \in BOOLEAN

DumpIdle ==
    /\ tasks = <<>>
    /\ FileName = [f \in FileObjs |-> <<"c">>]
    /\ ImageSectionObject = [f \in FileObjs |-> NullPtr]
    /\ DataSectionObject = [f \in FileObjs |-> NullPtr]
    /\ SharedCacheMap = [f \in FileObjs |-> NullPtr]
    /\ vacb_fields = <<>>
    /\ page_table = <<>>
    /\ explicit = {}
    /\ DumpProgram
    /\ df_pc = "idle"

DumpNext ==
    \/ CollectFileObject
    \/ RenderFile
    \/ RenderReturn

OutputName(fo) == NormalizeFilename(FileName[fo])

\* The first file object the loop took whose output filename is filename.
FirstTaken(filename) ==
    processed[CHOOSE k \in 1..Len(processed) :
                /\ OutputName(processed[k]) = filename
                /\ \A j \in 1..(k - 1) : OutputName(processed[j]) # filename]

\* The rows of this run that name filename, in order.
RowsNaming(filename) ==
    LET keep == SelectSeq(df_rows, LAMBDA r : r.filename = filename)
    IN  [k \in 1..Len(keep) |-> keep[k].row]

\* C2: for every output filename the loop has met, one stream was opened, by
\* the first file object taken with that filename; every row naming it comes
\* from that file object and the stream holds exactly what those rows wrote.
C2_FirstSeenWins ==
    \A k \in 1..Len(processed) :
        LET filename == OutputName(processed[k])
            first == FirstTaken(filename)
        IN  /\ Cardinality({j \in 1..Len(opened) :
                               opened[j].filename = filename}) = 1
            /\ \A j \in 1..Len(opened) :
                  opened[j].filename = filename => opened[j].fo = first
            /\ \A j \in 1..Len(df_rows) :
                  df_rows[j].filename = filename => df_rows[j].fo = first
            /\ disk[filename] = WriteAll(<<>>, RowsNaming(filename))

\* A finished run that took two file objects whose different names give the
\* same output filename, the stream of that name holding data.
C2_Witness ==
    /\ df_pc = "done"
    /\ \E j, k \in 1..Len(processed) :
          /\ j < k
          /\ FileName[processed[j]] # FileName[processed[k]]
          /\ OutputName(processed[j]) = OutputName(processed[k])
          /\ DOMAIN disk[OutputName(processed[j])] # {}

OpenedNames(o) == {o[j].filename : j \in 1..Len(o)}

\* C5: after a second run on the same image the streams opened are those of
\* the first run, each with the same content, whatever the two iteration
\* orders of the candidate set.
C5_RunsIdentical ==
    (run = 2 /\ df_pc = "done") =>
        /\ OpenedNames(opened) = OpenedNames(first_run.opened)
        /\ \A filename \in OpenedNames(opened) :
              disk[filename] = first_run.disk[filename]

\* C6: once the candidates are collected, a non-empty file_objects argument
\* is the candidate set.
C6_ExplicitListUsed ==
    (df_pc \in {"files", "done"} /\ explicit # {}) => file_objects = explicit

\* The pages of the VACBs of a file object's shared cache map: VACB k of the
\* CcVacbs array, page at offset within it.
CachePagesOf(fo) ==
    { pg \in (1..Len(vacb_fields))
               \X {j * PageSize : j \in 0..(VacbSize \div PageSize) - 1} :
        /\ SharedCacheMap[fo] # NullPtr
        /\ vacb_fields[pg[1]].SharedCacheMap = SharedCacheMap[fo] }

PageVa(pg) == vacb_fields[pg[1]].BaseAddress + pg[2]
PageFileOffset(pg) == vacb_fields[pg[1]].FileOffset + pg[2]
PageCovers(pg, sec) == sec \in Sectors(PageFileOffset(pg), PageSize)
\* The physical sector a translated page holds for file sector sec.
PageSector(pg, sec) ==
    vtop(PageVa(pg)) \div SectorSize + (sec - PageFileOffset(pg) \div SectorSize)

BackingSectors(fo) ==
    LET rows == ImageRows(fo) \o DataRows(fo)
    IN  UNION {Sectors(rows[k].off, rows[k].len) : k \in 1..Len(rows)}

\* C10: in a finished run, every sector of a stream that a backing-store
\* range covers and that a VACB page with a virtual-to-physical translation
\* covers holds the data of such a page; where no page covering a sector
\* translates, the sector holds what the backing store wrote.
C10_CachePagesWin ==
    df_pc = "done" =>
        \A j \in 1..Len(opened) :
            LET fo == opened[j].fo
                content == disk[opened[j].filename]
                backing == WriteAll(<<>>, ImageRows(fo) \o DataRows(fo))
                translated == {pg \in CachePagesOf(fo) : vtop(PageVa(pg)) # None}
            IN  \A sec \in DOMAIN content \cup BackingSectors(fo) :
                    LET pages == {pg \in translated : PageCovers(pg, sec)}
                    IN  IF pages = {}
                          THEN /\ sec \in DOMAIN backing
                               /\ sec \in DOMAIN content
                               /\ content[sec] = backing[sec]
                          ELSE sec \in BackingSectors(fo)
                               => /\ sec \in DOMAIN content
                                  /\ content[sec] \in
                                       {PageSector(pg, sec) : pg \in pages}

(***************************************************************************)
(* MftDump                                                                 *)
(***************************************************************************)
\* Bound: the number of 1 KB records decoded from the $Mft cache blocks.
MaxRecords == 3

\* Record numbers and parent references found in the image.
EntryIds == {2, 5, 8, 9}
ParentIds == {2, 5, 8, 9}

MftRecords ==
    [magic : {"FILE"}, id : EntryIds, parent : ParentIds]
    \cup [magic : {"BAAD"}, id : {5}, parent : ParentIds]

\* A value of dir_tree: the dict {} that __init__ stores under key 2, or a
\* set() created by extract_mft_entries_from_vacb.
EmptyDict == [type |-> "dict", children |-> {}]
NewSet == [type |-> "set", children |-> {}]

MftStart ==
    /\ mfts = <<>>
    /\ dir_tree = (2 :> EmptyDict)
    /\ scanned = 0
    /\ accepted = {}
    /\ keys_left = {}
    /\ seen = {}
    /\ stack = <<>>
    /\ tree_rows = <<>>

MftIdle == MftStart /\ mft_pc = "idle"

\* if parent_id not in self.dir_tree: self.dir_tree[parent_id] = set()
WithParent(tree, parent_id) ==
    IF parent_id \in DOMAIN tree THEN tree ELSE (parent_id :> NewSet) @@ tree

\* One iteration of extract_mft_entries_from_vacb's loop: the record at the
\* next offset is decoded. dir_tree[parent_id].add(mft_id) raises
\* AttributeError where dir_tree[parent_id] is the dict stored by __init__.
ExtractRecord ==
    /\ mft_pc = "extract"
    /\ scanned < MaxRecords
    /\ \E mft \in MftRecords :
          /\ scanned' = scanned + 1
          /\ IF mft.magic # "FILE"
               THEN UNCHANGED <<mfts, dir_tree, mft_pc, accepted>>
               ELSE LET mft_id == mft.id
                        parent_id == mft.parent
                        tree == WithParent(dir_tree, parent_id)
                    IN  /\ accepted' = accepted \cup {mft}
                        /\ mfts' = (mft_id :> mft) @@ mfts
                        /\ IF tree[parent_id].type = "set"
                             THEN /\ dir_tree' =
                                       [tree EXCEPT ![parent_id].children =
                                                        @ \cup {mft_id}]
                                  /\ UNCHANGED mft_pc
                             ELSE /\ dir_tree' = tree
                                  /\ mft_pc' = "AttributeError"
    /\ UNCHANGED <<keys_left, seen, stack, tree_rows>>
    /\ UNCHANGED <<vacb_vars, ca_vars, dump_vars>>

\* The cache blocks of $Mft are exhausted: render goes on to the tree.
\* seen = set(); for mft_id in self.dir_tree: ...
ExtractDone ==
    /\ mft_pc = "extract"
    /\ mft_pc' = "render"
    /\ keys_left' = DOMAIN dir_tree
    /\ seen' = {}
    /\ UNCHANGED <<mfts, dir_tree, scanned, accepted, stack, tree_rows>>
    /\ UNCHANGED <<vacb_vars, ca_vars, dump_vars>>

SetMin(S) == CHOOSE m \in S : \A x \in S : m <= x

\* sorted(...) of a collection of ids.
RECURSIVE sorted(_)
sorted(S) == IF S = {} THEN <<>> ELSE <<SetMin(S)>> \o sorted(S \ {SetMin(S)})

\* self.dir_tree.get(root, [])
Children(root) ==
    IF root \in DOMAIN dir_tree THEN dir_tree[root].children ELSE {}

\* seen.add(root)
MarkSeenForgotten(s, root) == s
MarkSeen(s, root) == s \cup {root}

\* The head of render_tree(renderer, root, seen, depth): return at once, or
\* emit the row, mark the id seen and start the loop over its sorted children.
\* stk is the stack of the callers.
render_tree(stk, root, depth) ==
    IF root \notin DOMAIN mfts \/ root \in seen
      THEN /\ stack' = stk
           /\ UNCHANGED <<seen, tree_rows>>
      ELSE /\ tree_rows' = Append(tree_rows, [id |-> root, depth |-> depth])
           /\ seen' = MarkSeen(seen, root)
           /\ stack' = Append(stk, [root |-> root, depth |-> depth,
                                    todo |-> sorted(Children(root))])

\* render's loop "for mft_id in self.dir_tree": the dict hands out its keys in
\* an order the program does not control.
RenderKey ==
    /\ mft_pc = "render"
    /\ stack = <<>>
    /\ IF keys_left = {}
         THEN /\ mft_pc' = "done"
              /\ UNCHANGED <<keys_left, seen, stack, tree_rows>>
         ELSE \E mft_id \in keys_left :
                /\ keys_left' = keys_left \ {mft_id}
                /\ render_tree(<<>>, mft_id, 0)
                /\ UNCHANGED mft_pc
    /\ UNCHANGED <<mfts, dir_tree, scanned, accepted>>
    /\ UNCHANGED <<vacb_vars, ca_vars, dump_vars>>

\* One iteration of the innermost call's loop over its children, or its
\* return when none is left.
RenderChild ==
    /\ mft_pc = "render"
    /\ stack # <<>>
    /\ LET top == stack[Len(stack)]
           below == SubSeq(stack, 1, Len(stack) - 1)
       IN  IF top.todo = <<>>
             THEN /\ stack' = below
                  /\ UNCHANGED <<seen, tree_rows>>
             ELSE LET child == Head(top.todo)
                      rest == Append(below, [top EXCEPT !.todo = Tail(top.todo)])
                  IN  IF child \notin seen
                        THEN render_tree(rest, child, top.depth + 1)
                        ELSE /\ stack' = rest
                             /\ UNCHANGED <<seen, tree_rows>>
    /\ UNCHANGED <<mfts, dir_tree, mft_pc, scanned, accepted, keys_left>>
    /\ UNCHANGED <<vacb_vars, ca_vars, dump_vars>>

MftNext ==
    \/ ExtractRecord
    \/ ExtractDone
    \/ RenderKey
    \/ RenderChild

Rendered == {tree_rows[k].id : k \in 1..Len(tree_rows)}
RowOf(id) == CHOOSE k \in 1..Len(tree_rows) : tree_rows[k].id = id

\* Whether following parent references from cur, for at most n steps through
\* accepted entries, comes to target.
RECURSIVE ParentChainReaches(_, _, _)
ParentChainReaches(cur, target, n) ==
    /\ n > 0
    /\ cur \in DOMAIN mfts
    /\ \/ mfts[cur].parent = target
       \/ ParentChainReaches(mfts[cur].parent, target, n - 1)

OnParentCycle(id) == ParentChainReaches(id, id, Cardinality(DOMAIN mfts))

NoRepeatedRow ==
    \A j, k \in 1..Len(tree_rows) :
        j # k => tree_rows[j].id # tree_rows[k].id

\* C1: the tree rendering never emits a second row for an MFT id, and once
\* render starts on the tree it finishes, whatever the parent-id graph
\* (cycles and self-parented entries included).
C1_TreeRenderTerminates ==
    /\ []NoRepeatedRow
    /\ (mft_pc = "render") ~> (mft_pc = "done")

\* A finished rendering of a graph with a two-entry parent cycle and a
\* self-parented entry, each of the three rendered.
C1_Witness ==
    /\ mft_pc = "done"
    /\ \E a, b, c \in Rendered :
          /\ a # b
          /\ mfts[a].parent = b
          /\ mfts[b].parent = a
          /\ mfts[c].parent = c

\* C7: once the block is processed, the entry map holds exactly the records
\* read with magic "FILE", each of them is in the child set of its parent id,
\* and dir_tree holds nothing else (a record of another magic adds nothing).
C7_FileRecordsRegistered ==
    mft_pc \in {"render", "done", "AttributeError"} =>
        /\ DOMAIN mfts = {r.id : r \in accepted}
        /\ \A id \in DOMAIN mfts : mfts[id] \in accepted
        /\ \A r \in accepted :
              /\ r.parent \in DOMAIN dir_tree
              /\ r.id \in dir_tree[r.parent].children
        /\ \A key \in DOMAIN dir_tree :
              /\ key = 2 \/ \E r \in accepted : r.parent = key
              /\ dir_tree[key].children
                    \subseteq {r.id : r \in {x \in accepted : x.parent = key}}

\* C9: in a finished rendering, every rendered id whose parent is another id
\* with an accepted entry that is on no parent cycle has its row after its
\* parent's row, one level deeper.
C9_RowsBelowParent ==
    mft_pc = "done" =>
        \A id \in Rendered :
            LET parent_id == mfts[id].parent IN
            (/\ parent_id # id
             /\ parent_id \in DOMAIN mfts
             /\ ~OnParentCycle(parent_id))
            => /\ parent_id \in Rendered
               /\ RowOf(parent_id) < RowOf(id)
               /\ tree_rows[RowOf(id)].depth
                     = tree_rows[RowOf(parent_id)].depth + 1

(***************************************************************************)
(* Specifications                                                          *)
(***************************************************************************)
InitVacb == VacbSnapshot /\ GvStart /\ CaIdle /\ DumpIdle /\ MftIdle

SpecVacb == InitVacb /\ [][VacbNext]_vars

InitCa == VacbIdle /\ GvStart /\ CaStart /\ DumpIdle /\ MftIdle

SpecCa == InitCa /\ [][CaNext]_vars

\* The command run twice on images that differ in names and references.
InitDump ==
    /\ NamesImage /\ GvStart /\ CaIdleWalk /\ MftIdle
    /\ DumpProgram /\ df_pc = "render"

DumpTwiceNext ==
    \/ CollectFileObject
    \/ RenderFile
    \/ RenderReturn
    \/ SecondRun

SpecDump == InitDump /\ [][DumpTwiceNext]_vars

\* The command run once on images that differ in one file's data.
InitData ==
    /\ DataImage /\ GvStart /\ CaIdleWalk /\ MftIdle
    /\ DumpProgram /\ df_pc = "render"

SpecData == InitData /\ [][DumpNext]_vars

InitMft ==
    /\ VacbIdle /\ GvStart /\ CaIdle /\ DumpIdle /\ MftStart
    /\ mft_pc = "extract"

SpecMft == InitMft /\ [][MftNext]_vars

\* render runs to completion: it is one synchronous call.
FairSpecMft == SpecMft /\ WF_vars(MftNext)

====
